---- MODULE Spec2Model ----
(***************************************************************************)
(* Session-token lifecycle of MahaInsight: JWT issuance and verification   *)
(* (auth/jwt_utils.py), the refresh_tokens table (db.py), the login,       *)
(* logout, refresh and profile handlers (auth/routes.py), the access       *)
(* middleware (auth/auth_middleware.py) and the per-post AI usage quota    *)
(* (app.py ai_chat, db.py user_ai_usage).                                  *)
(*                                                                         *)
(* Time is the wall clock in whole ticks.  PyJWT writes iat and exp as     *)
(* whole seconds, so a token is a function of (claims, second of issue):   *)
(* two tokens generated for the same user in the same tick are the same    *)
(* string and have the same SHA-256 digest.  The lifetimes below are the   *)
(* configured lifetimes scaled to ticks.                                   *)
(***************************************************************************)
EXTENDS Integers, FiniteSets, Sequences, TLC

\* ---------------------------------------------------------------- bounds
MaxTime == 2
MaxIssued == 3
MaxRefreshes == 2
MaxSessions == 2
MaxQuotaTime == 3
MaxChats == 5
MaxCallbacks == 3
MaxStatus == 2
MaxRequests == 2
MaxStoreTime == 3
MaxStoreOps == 4

\* ------------------------------------------------------ program constants
\* JWT_ACCESS_TOKEN_EXPIRES (900 s by default), in ticks
ACCESS_TOKEN_EXPIRES == 1
\* JWT_REFRESH_TOKEN_EXPIRES (30 days by default), in ticks
REFRESH_TOKEN_EXPIRES == 2
\* timedelta(days=30) of store_refresh_token_in_db, in ticks
STORE_EXPIRES == 2

\* the usage cap of ai_chat ("current_usage >= 3")
AI_LIMIT == 3
\* timedelta(hours=24) of get_user_ai_usage, in ticks
AI_WINDOW == 2
\* the "remaining" reported to admins
UNLIMITED == 999

Users == {1, 2}
Posts == {1}
Emails == {"e1", "e2"}
\* what the identity provider reports: a Google id and the email it has
GoogleProfiles == {[id |-> "g1", email |-> "e1"], [id |-> "g2", email |-> "e2"]}
Procs == {1, 2}

VARIABLES
    now,             \* datetime.now(timezone.utc), in ticks
    refresh_tokens,  \* rows of table refresh_tokens
    users_insight,   \* rows of table users_insight, by id
    issued,          \* <<access, refresh>> pairs delivered by set_auth_cookies
    rp,              \* the refresh() request handlers in flight
    chain_of,        \* history: token_hash -> login the token descends from
    inserted,        \* history: number of rows inserted into refresh_tokens
    refreshes,       \* history: number of refresh() requests received
    rotated,         \* history: refresh tokens for which refresh() returned 200
    logged_out,      \* history: refresh tokens presented to logout()
    auth,            \* history: the last get_current_user() call of this instant
    user_ai_usage,   \* rows of table user_ai_usage, by (user_id, post_id)
    qp,              \* the ai_chat() request handlers in flight
    chats,           \* history: number of ai_chat() requests received
    win,             \* history: first window of each (user_id, post_id)
    lp,              \* the google_callback() request handlers in flight
    callbacks,       \* history: number of google_callback() requests received
    session,         \* the Flask session of the client that SpecStatus follows
    status_resp,     \* the last response of auth_status() to that client
    status_req,      \* the cookies <<access, refresh>> of that request
    statuses,        \* history: number of auth_status() requests received
    guard,           \* the last request to a decorated route and its outcome
    requests,        \* history: number of requests to decorated routes
    store_op,        \* the last call of a refresh_tokens function of db.py
    store_ops        \* history: number of such calls

vars == <<now, refresh_tokens, users_insight, issued, rp, chain_of, inserted,
          refreshes, rotated, logged_out, auth, user_ai_usage, qp, chats, win,
          lp, callbacks, session, status_resp, status_req, statuses,
          guard, requests, store_op, store_ops>>

session_vars == <<refresh_tokens, users_insight, issued, rp, chain_of, inserted,
                  refreshes, rotated, logged_out, auth>>
quota_vars == <<user_ai_usage, qp, chats, win>>
link_vars == <<lp, callbacks>>
status_vars == <<session, status_resp, status_req, statuses, guard, requests>>
store_vars == <<store_op, store_ops>>

store == <<refresh_tokens, users_insight>>
history == <<chain_of, inserted, refreshes, rotated, logged_out, auth>>

\* ------------------------------------------------------------- TokenCodec
NoToken == [type |-> "none", user_id |-> 0, is_admin |-> FALSE, iat |-> 0, exp |-> 0]

\* an access token whose payload names user 1 whoever it is generated for
generate_access_token_first_user(user_id, is_admin, t) ==
    [type |-> "access", user_id |-> 1, is_admin |-> is_admin,
     iat |-> t, exp |-> t + ACCESS_TOKEN_EXPIRES]

\* an access token whose payload never carries is_admin
generate_access_token_no_role(user_id, is_admin, t) ==
    [type |-> "access", user_id |-> user_id, is_admin |-> FALSE,
     iat |-> t, exp |-> t + ACCESS_TOKEN_EXPIRES]

\* generate_access_token: payload {user_id, is_admin, type, iat, exp}
generate_access_token(user_id, is_admin, t) ==
    [type |-> "access", user_id |-> user_id, is_admin |-> is_admin,
     iat |-> t, exp |-> t + ACCESS_TOKEN_EXPIRES]

\* hashlib.sha256(token.encode()).hexdigest(): a collision-free digest
Sha256Hex(token) ==
    <<"sha256", token.type, token.user_id, token.is_admin, token.iat, token.exp>>

\* generate_refresh_token: payload {user_id, type, iat, exp}; returns (token, hash)
generate_refresh_token(user_id, t) ==
    LET token == [type |-> "refresh", user_id |-> user_id, is_admin |-> FALSE,
                  iat |-> t, exp |-> t + REFRESH_TOKEN_EXPIRES]
    IN  <<token, Sha256Hex(token)>>

\* a digest of another algorithm than the one used at issuance
hash_token_md5(token) ==
    <<"md5", token.type, token.user_id, token.is_admin, token.iat, token.exp>>

\* hash_token: hashlib.sha256(token.encode()).hexdigest()
hash_token(token) == Sha256Hex(token)

\* jwt.decode of a token signed with JWT_SECRET_KEY: the exp claim is checked
\* as exp <= now (the token is rejected on or after its expiry instant)
jwt_expired(token, t) == token.exp <= t

\* verification that skips the exp check (options verify_exp False)
verify_access_token_no_exp(token, t) ==
    IF token.type # "access" THEN [ok |-> FALSE, error |-> "Invalid token type"]
    ELSE [ok |-> TRUE, error |-> ""]

verify_access_token(token, t) ==
    IF jwt_expired(token, t) THEN [ok |-> FALSE, error |-> "Access token has expired"]
    ELSE IF token.type # "access" THEN [ok |-> FALSE, error |-> "Invalid token type"]
    ELSE [ok |-> TRUE, error |-> ""]

\* verification that does not look at the payload's type
verify_refresh_token_any_kind(token, t) ==
    IF jwt_expired(token, t) THEN [ok |-> FALSE, error |-> "Refresh token has expired"]
    ELSE [ok |-> TRUE, error |-> ""]

\* verify_refresh_token: jwt.decode, then the type check
verify_refresh_token(token, t) ==
    IF jwt_expired(token, t) THEN [ok |-> FALSE, error |-> "Refresh token has expired"]
    ELSE IF token.type # "refresh" THEN [ok |-> FALSE, error |-> "Invalid token type"]
    ELSE [ok |-> TRUE, error |-> ""]

\* --------------------------------------------------------- RevocationStore
Row(user_id, token_hash, expires_at) ==
    [user_id |-> user_id, token_hash |-> token_hash,
     expires_at |-> expires_at, revoked |-> FALSE]

\* a table without the UNIQUE constraint
CanInsert_always(rows, token_hash) == TRUE

\* token_hash TEXT UNIQUE NOT NULL: the insert raises on an existing hash
CanInsert(rows, token_hash) == \A r \in rows : r.token_hash # token_hash

\* an insert that is acknowledged and stores nothing
create_refresh_token_drop(rows, user_id, token_hash, expires_at) == rows

\* create_refresh_token
create_refresh_token(rows, user_id, token_hash, expires_at) ==
    rows \cup {Row(user_id, token_hash, expires_at)}

\* a select without eq("revoked", False)
FoundRows_any(rows, token_hash) == {r \in rows : r.token_hash = token_hash}

\* the select of get_refresh_token: eq(token_hash).eq(revoked, False)
FoundRows(rows, token_hash) ==
    {r \in rows : r.token_hash = token_hash /\ r.revoked = FALSE}

\* a lookup that returns the row of the hash whatever its revoked flag
get_refresh_token_any(rows, token_hash, fails) ==
    IF fails THEN {} ELSE {r \in rows : r.token_hash = token_hash}

\* get_refresh_token: .single() of the select; any exception (no row, store
\* failure) yields None
get_refresh_token(rows, token_hash, fails) ==
    IF fails \/ FoundRows(rows, token_hash) = {} THEN {} ELSE FoundRows(rows, token_hash)

\* an update that flips the flag
revoke_refresh_token_flip(rows, token_hash) ==
    {IF r.token_hash = token_hash THEN [r EXCEPT !.revoked = ~r.revoked] ELSE r :
        r \in rows}

\* revoke_refresh_token: update({"revoked": True}).eq("token_hash", token_hash)
revoke_refresh_token(rows, token_hash) ==
    {IF r.token_hash = token_hash THEN [r EXCEPT !.revoked = TRUE] ELSE r : r \in rows}

\* an update without eq("user_id", user_id)
revoke_all_user_tokens_everyone(rows, user_id) ==
    {[r EXCEPT !.revoked = TRUE] : r \in rows}

\* revoke_all_user_tokens: update({"revoked": True}).eq("user_id", user_id)
revoke_all_user_tokens(rows, user_id) ==
    {IF r.user_id = user_id THEN [r EXCEPT !.revoked = TRUE] ELSE r : r \in rows}

\* cleanup_expired_tokens, first statement: delete().lt("expires_at", now)
DeleteExpired(rows, t) == {r \in rows : ~(r.expires_at < t)}
\* cleanup_expired_tokens, second statement: delete().eq("revoked", True)
DeleteRevoked(rows) == {r \in rows : ~r.revoked}

\* ------------------------------------------------------------------- Init
IdleHandler ==
    [pc |-> "idle", token |-> NoToken, is_admin |-> FALSE,
     new_access |-> NoToken, new_refresh |-> NoToken, code |-> "",
     revoked_old |-> FALSE, raced |-> FALSE]

NoAuth ==
    [token |-> NoToken, user |-> 0, is_admin |-> FALSE, ok |-> FALSE, error |-> "",
     stale |-> FALSE]

NoUsage == [usage_count |-> 0, last_used_at |-> -1]
IdleChat ==
    [pc |-> "idle", user_id |-> 0, is_admin |-> FALSE, post_id |-> 0,
     remaining_quota |-> 0, record |-> NoUsage, code |-> "", remaining |-> 0,
     in_window |-> FALSE, used_before |-> 0, after_window |-> FALSE]
NoWindow == [start |-> -1, used |-> 0, later |-> 0]
NoGuard == [decorator |-> "", token |-> NoToken, at |-> 0,
            status |-> 0, code |-> "", ran |-> FALSE]
NoStoreOp == [op |-> "", user_id |-> 0, token_hash |-> <<>>, at |-> 0,
              ok |-> FALSE, found |-> {}, before |-> {}]
NoSession == [user_id |-> 0, is_admin |-> FALSE]
IdleCallback ==
    [pc |-> "idle", google_id |-> "", email |-> "", user |-> 0, user_id |-> 0,
     code |-> "", failed |-> FALSE, verified |-> FALSE, known |-> FALSE,
     owner |-> 0, via |-> ""]

Init ==
    /\ now = 0
    /\ refresh_tokens = {}
    /\ users_insight = [u \in Users |->
                           [is_admin |-> (u = 1),
                            email |-> IF u = 1 THEN "e1" ELSE "e2",
                            google_id |-> ""]]
    /\ issued = {}
    /\ rp = [p \in Procs |-> IdleHandler]
    /\ chain_of = [h \in {} |-> 0]
    /\ inserted = 0
    /\ refreshes = 0
    /\ rotated = {}
    /\ logged_out = {}
    /\ auth = NoAuth
    /\ user_ai_usage = [k \in Users \X Posts |-> NoUsage]
    /\ qp = [p \in Procs |-> IdleChat]
    /\ chats = 0
    /\ win = [k \in Users \X Posts |-> NoWindow]
    /\ lp = [p \in Procs |-> IdleCallback]
    /\ callbacks = 0
    /\ session = NoSession
    /\ status_resp = ""
    /\ status_req = <<NoToken, NoToken>>
    /\ statuses = 0
    /\ guard = NoGuard
    /\ requests = 0
    /\ store_op = NoStoreOp
    /\ store_ops = 0

IssuedRefresh == {pair[2] : pair \in issued}
IssuedAccess == {pair[1] : pair \in issued}

\* the clock advances
Tick ==
    /\ now < MaxTime
    /\ now' = now + 1
    /\ auth' = NoAuth
    /\ UNCHANGED <<refresh_tokens, users_insight, issued, rp, chain_of, inserted,
                   refreshes, rotated, logged_out>>
    /\ UNCHANGED quota_vars
    /\ UNCHANGED link_vars

\* ---------------------------------------------------------------- Login
\* login() after the password check, through create_auth_response: generate
\* the pair, insert the refresh row, update last_login_at, set the cookies.
\* An exception anywhere is caught by login() and no cookie is set.
Login(u) ==
    /\ u \in DOMAIN users_insight
    /\ inserted < MaxIssued
    /\ LET access == generate_access_token(u, users_insight[u].is_admin, now)
           gen == generate_refresh_token(u, now)
           expires_at == now + STORE_EXPIRES
       IN  \E insert_fails, update_fails \in BOOLEAN :
             IF insert_fails \/ ~CanInsert(refresh_tokens, gen[2])
             THEN UNCHANGED <<refresh_tokens, issued, chain_of, inserted>>
             ELSE /\ refresh_tokens' =
                        create_refresh_token(refresh_tokens, u, gen[2], expires_at)
                  /\ chain_of' = [h \in DOMAIN chain_of \cup {gen[2]} |->
                                    IF h = gen[2] THEN inserted + 1 ELSE chain_of[h]]
                  /\ inserted' = inserted + 1
                  /\ issued' = IF update_fails THEN issued
                               ELSE issued \cup {<<access, gen[1]>>}
    /\ UNCHANGED <<now, users_insight, rp, refreshes, rotated, logged_out, auth>>

\* --------------------------------------------------------------- Logout
\* logout(): hash the cookie, revoke_refresh_token; an exception of the store
\* call is printed and dropped; the response is always the redirect
Logout(token) ==
    /\ token \in IssuedRefresh \cup {NoToken}
    /\ IF token = NoToken
       THEN UNCHANGED <<refresh_tokens, logged_out>>
       ELSE /\ \E fails \in BOOLEAN :
                 refresh_tokens' =
                     IF fails THEN refresh_tokens
                     ELSE revoke_refresh_token(refresh_tokens, hash_token(token))
            /\ logged_out' = logged_out \cup {token}
    /\ UNCHANGED <<now, users_insight, issued, rp, chain_of, inserted,
                   refreshes, rotated, auth>>

\* -------------------------------------------------------------- Refresh
\* the response is sent; the handler keeps what it did to the store
Done(h, code) ==
    [IdleHandler EXCEPT !.pc = "done", !.code = code, !.token = h.token,
                        !.revoked_old = h.revoked_old, !.raced = h.raced,
                        !.new_refresh = IF h.revoked_old /\ code # "OK"
                                        THEN h.new_refresh ELSE NoToken]

\* refresh(), lines 177-190: verify the cookie, look its hash up
RefreshReceive(p, token) ==
    /\ rp[p].pc \in {"idle", "done"}
    /\ \A q \in Procs : q < p => rp[q].pc # "idle"
    /\ refreshes < MaxRefreshes
    /\ refreshes' = refreshes + 1
    /\ LET h == [IdleHandler EXCEPT
                    !.token = token,
                    !.raced = \E q \in Procs \ {p} :
                                 /\ rp[q].pc \in {"got_token", "generated", "revoked"}
                                 /\ rp[q].token = token]
       IN  IF ~verify_refresh_token(token, now).ok
           THEN rp' = [rp EXCEPT ![p] = Done(h, "INVALID_REFRESH_TOKEN")]
           ELSE \E fails \in BOOLEAN :
                  IF get_refresh_token(refresh_tokens, hash_token(token), fails) = {}
                  THEN rp' = [rp EXCEPT ![p] = Done(h, "REVOKED_TOKEN")]
                  ELSE rp' = [rp EXCEPT ![p] = [h EXCEPT !.pc = "got_token"]]
    /\ UNCHANGED <<now, refresh_tokens, users_insight, issued, chain_of, inserted,
                   rotated, logged_out, auth>>

\* refresh() of a client that sends back the refresh token it was given
RefreshStart(p, token) ==
    /\ token \in IssuedRefresh
    /\ RefreshReceive(p, token)

\* refresh() of a client that puts any token it holds into the cookie
RefreshStartAnyCookie(p, token) ==
    /\ token \in IssuedRefresh \cup IssuedAccess
    /\ RefreshReceive(p, token)

\* refresh(), lines 192-197: get_user_by_id, create_jwt_tokens_for_user
RefreshGenerate(p) ==
    /\ rp[p].pc = "got_token"
    /\ \E fails \in BOOLEAN :
         IF fails
         THEN rp' = [rp EXCEPT ![p] = Done(rp[p], "REFRESH_ERROR")]
         ELSE LET u == rp[p].token.user_id
                  is_admin == users_insight[u].is_admin
              IN  rp' = [rp EXCEPT ![p] =
                           [rp[p] EXCEPT !.pc = "generated",
                                         !.is_admin = is_admin,
                                         !.new_access = generate_access_token(u, is_admin, now),
                                         !.new_refresh = generate_refresh_token(u, now)[1]]]
    /\ UNCHANGED <<now, refresh_tokens, users_insight, issued, history>>

\* refresh(), line 200: revoke_refresh_token(token_hash)
RefreshRevoke(p) ==
    /\ rp[p].pc = "generated"
    /\ \E fails \in BOOLEAN :
         IF fails
         THEN /\ rp' = [rp EXCEPT ![p] = Done(rp[p], "REFRESH_ERROR")]
              /\ UNCHANGED refresh_tokens
         ELSE /\ refresh_tokens' =
                    revoke_refresh_token(refresh_tokens, hash_token(rp[p].token))
              /\ rp' = [rp EXCEPT ![p] = [rp[p] EXCEPT !.pc = "revoked",
                                                        !.revoked_old = TRUE]]
    /\ UNCHANGED <<now, users_insight, issued, history>>

\* refresh(), lines 201-212: store_refresh_token_in_db, set the cookies
RefreshStore(p) ==
    /\ rp[p].pc = "revoked"
    /\ inserted < MaxIssued
    /\ LET new_hash == hash_token(rp[p].new_refresh)
           old_hash == hash_token(rp[p].token)
           expires_at == now + STORE_EXPIRES
       IN  \E fails \in BOOLEAN :
             IF fails \/ ~CanInsert(refresh_tokens, new_hash)
             THEN /\ rp' = [rp EXCEPT ![p] = Done(rp[p], "REFRESH_ERROR")]
                  /\ UNCHANGED <<refresh_tokens, issued, chain_of, rotated, inserted>>
             ELSE /\ refresh_tokens' =
                        create_refresh_token(refresh_tokens, rp[p].token.user_id,
                                             new_hash, expires_at)
                  /\ chain_of' = [h \in DOMAIN chain_of \cup {new_hash} |->
                                    IF h = new_hash THEN chain_of[old_hash]
                                    ELSE chain_of[h]]
                  /\ issued' = issued \cup {<<rp[p].new_access, rp[p].new_refresh>>}
                  /\ rotated' = rotated \cup {rp[p].token}
                  /\ inserted' = inserted + 1
                  /\ rp' = [rp EXCEPT ![p] = Done([rp[p] EXCEPT !.revoked_old = TRUE], "OK")]
    /\ UNCHANGED <<now, users_insight, refreshes, logged_out, auth>>

\* refresh() run from its first to its last line on table `rows` at time t,
\* with no other request in between and no store call failing: the code of
\* its response
refresh_outcome(rows, token, t) ==
    IF ~verify_refresh_token(token, t).ok THEN "INVALID_REFRESH_TOKEN"
    ELSE IF get_refresh_token(rows, hash_token(token), FALSE) = {} THEN "REVOKED_TOKEN"
    ELSE IF ~CanInsert(revoke_refresh_token(rows, hash_token(token)),
                       generate_refresh_token(token.user_id, t)[2])
    THEN "REFRESH_ERROR"
    ELSE "OK"

\* -------------------------------------------------------------- profile
\* profile() POST by the client whose cookies are `pair`: after the update
\* a new pair is generated and its refresh row inserted; the row of the
\* refresh cookie the client already holds is left as it is
Profile(pair) ==
    /\ pair \in issued
    /\ inserted < MaxIssued
    /\ LET u == pair[2].user_id
           access == generate_access_token(u, users_insight[u].is_admin, now)
           gen == generate_refresh_token(u, now)
           expires_at == now + STORE_EXPIRES
       IN  \E fails \in BOOLEAN :
             IF fails \/ ~CanInsert(refresh_tokens, gen[2])
             THEN UNCHANGED <<refresh_tokens, issued, chain_of, inserted>>
             ELSE /\ refresh_tokens' =
                        create_refresh_token(refresh_tokens, u, gen[2], expires_at)
                  /\ chain_of' = [h \in DOMAIN chain_of \cup {gen[2]} |->
                                    IF h = gen[2] THEN chain_of[hash_token(pair[2])]
                                    ELSE chain_of[h]]
                  /\ issued' = issued \cup {<<access, gen[1]>>}
                  /\ inserted' = inserted + 1
    /\ UNCHANGED <<now, users_insight, rp, refreshes, rotated, logged_out, auth>>

\* ------------------------------------------------------ garbage collection
\* cleanup_expired_tokens: two delete statements; an exception of the first
\* skips the second
cleanup_expired_tokens ==
    /\ \E done \in 0..2 :
         refresh_tokens' =
            IF done = 0 THEN refresh_tokens
            ELSE IF done = 1 THEN DeleteExpired(refresh_tokens, now)
            ELSE DeleteRevoked(DeleteExpired(refresh_tokens, now))
    /\ UNCHANGED <<now, users_insight, issued, rp, history>>

\* ---------------------------------------------------------- toggle_admin
\* toggle_admin behind admin_required: the caller presents an access token
\* that verifies and carries is_admin; the target is another user
toggle_admin(access, user_id) ==
    /\ access \in IssuedAccess
    /\ verify_access_token(access, now).ok
    /\ access.is_admin
    /\ user_id # access.user_id
    /\ user_id \in DOMAIN users_insight
    /\ users_insight' = [users_insight EXCEPT
                            ![user_id].is_admin = ~users_insight[user_id].is_admin]
    /\ UNCHANGED <<now, refresh_tokens, issued, rp, history>>

\* ---------------------------------------------------------- Authenticate
\* the rows of the session an access token was delivered with
SessionRows(access) ==
    {r \in refresh_tokens :
        \E pair \in issued : pair[1] = access /\ r.token_hash = hash_token(pair[2])}

\* an authentication that also asks the store for a live session row
get_current_user_with_store(token, t) ==
    LET v == verify_access_token(token, t)
    IN  IF v.ok /\ \E r \in SessionRows(token) : ~r.revoked
        THEN [ok |-> TRUE, user |-> token.user_id, is_admin |-> token.is_admin,
              error |-> ""]
        ELSE [ok |-> FALSE, user |-> 0, is_admin |-> FALSE, error |-> v.error]

\* get_current_user / jwt_required: the payload of the access cookie, or None
get_current_user(token, t) ==
    LET v == verify_access_token(token, t)
    IN  IF v.ok
        THEN [ok |-> TRUE, user |-> token.user_id, is_admin |-> token.is_admin,
              error |-> ""]
        ELSE [ok |-> FALSE, user |-> 0, is_admin |-> FALSE, error |-> v.error]

\* `stale` notes that, at the call, every row of the token's session was
\* revoked and the account's role was no longer the one the token carries
Authenticate(token) ==
    /\ token \in IssuedAccess
    /\ LET r == get_current_user(token, now)
       IN  auth' = [token |-> token, user |-> r.user, is_admin |-> r.is_admin,
                    ok |-> r.ok, error |-> r.error,
                    stale |-> /\ SessionRows(token) # {}
                              /\ \A row \in SessionRows(token) : row.revoked
                              /\ users_insight[token.user_id].is_admin # token.is_admin]
    /\ UNCHANGED <<now, refresh_tokens, users_insight, issued, rp, chain_of,
                   inserted, refreshes, rotated, logged_out>>

\* ------------------------------------------------------------ auth_status
\* create_auth_response for the client followed: the login, then the session
\* keys (lines 69-73)
ClientLogin(u) ==
    /\ Login(u)
    /\ session' = IF issued' # issued
                  THEN [user_id |-> u, is_admin |-> users_insight[u].is_admin]
                  ELSE session
    /\ UNCHANGED <<status_resp, status_req, statuses, guard, requests>>

\* auth_status() with the cookies access_token and refresh_token (NoToken
\* for a cookie that is not there)
auth_status(access, refresh) ==
    /\ access \in IssuedAccess \cup {NoToken}
    /\ refresh \in IssuedRefresh \cup {NoToken}
    /\ statuses < MaxStatus
    /\ statuses' = statuses + 1
    /\ status_req' = <<access, refresh>>
    /\ IF access = NoToken
       THEN /\ status_resp' = IF refresh # NoToken THEN "access_token_missing"
                              ELSE "no_tokens"
            /\ UNCHANGED session
       ELSE IF verify_access_token(access, now).ok
       THEN IF session.user_id # 0
            THEN /\ status_resp' = "authenticated"
                 /\ UNCHANGED session
            ELSE \E fails \in BOOLEAN :
                   IF fails
                   THEN /\ status_resp' = "error"
                        /\ UNCHANGED session
                   ELSE /\ status_resp' = "authenticated"
                        /\ session' =
                             IF access.user_id \in DOMAIN users_insight
                             THEN [user_id |-> access.user_id,
                                   is_admin |-> users_insight[access.user_id].is_admin]
                             ELSE session
       ELSE IF refresh # NoToken
       THEN /\ status_resp' = "access_token_expired"
            /\ UNCHANGED session
       ELSE /\ status_resp' = "token_invalid"
            /\ session' = NoSession
    /\ UNCHANGED <<now, store, issued, rp, history, guard, requests>>

\* ------------------------------------------------------------- decorators
\* jwt_required: the outcome of the wrapper for the cookie access_token at
\* time t; ran says that the decorated function was called
jwt_required(token, t) ==
    IF token = NoToken
    THEN [status |-> 401, code |-> "NO_TOKEN", ran |-> FALSE]
    ELSE IF verify_access_token(token, t).ok
    THEN [status |-> 200, code |-> "", ran |-> TRUE]
    ELSE [status |-> 401, code |-> "INVALID_TOKEN", ran |-> FALSE]

\* a wrapper that does not look at the payload's is_admin
admin_required_no_role(token, t) ==
    jwt_required(token, t)

\* admin_required: as jwt_required, and 403 for a payload without is_admin
admin_required(token, t) ==
    IF token = NoToken
    THEN [status |-> 401, code |-> "NO_TOKEN", ran |-> FALSE]
    ELSE IF verify_access_token(token, t).ok
    THEN IF ~token.is_admin
         THEN [status |-> 403, code |-> "FORBIDDEN", ran |-> FALSE]
         ELSE [status |-> 200, code |-> "", ran |-> TRUE]
    ELSE [status |-> 401, code |-> "INVALID_TOKEN", ran |-> FALSE]

\* a request to a route behind user_required (jwt_required) or behind
\* login_required (admin_required), with any token a client holds as cookie
Request(decorator, token) ==
    /\ decorator \in {"jwt_required", "admin_required"}
    /\ token \in IssuedAccess \cup IssuedRefresh \cup {NoToken}
    /\ requests < MaxRequests
    /\ requests' = requests + 1
    /\ LET out == IF decorator = "jwt_required" THEN jwt_required(token, now)
                  ELSE admin_required(token, now)
       IN  guard' = [decorator |-> decorator, token |-> token, at |-> now,
                     status |-> out.status, code |-> out.code, ran |-> out.ran]
    /\ UNCHANGED <<now, store, issued, rp, history, session, status_resp,
                   status_req, statuses>>

\* ------------------------------------------------------- IdentityLinker
\* table users_insight: email is unique (profile() tells the violation from
\* other errors), google_id is unique (migrate_db.py)
ByGoogleId(users, google_id) ==
    {u \in DOMAIN users : users[u].google_id = google_id}
\* a lookup by email that never finds a row
ByEmail_none(users, email) == {}

ByEmail(users, email) == {u \in DOMAIN users : users[u].email = email}

\* a lookup by Google id that never finds a row
get_user_by_google_id_none(users, google_id, fails) == 0

\* get_user_by_google_id: the row, or None on no row and on any exception
get_user_by_google_id(users, google_id, fails) ==
    IF fails \/ ByGoogleId(users, google_id) = {} THEN 0
    ELSE CHOOSE u \in ByGoogleId(users, google_id) : TRUE

\* get_user_by_email: .single() raises when there is no row; 0 stands for
\* the exception
get_user_by_email(users, email, fails) ==
    IF fails \/ ByEmail(users, email) = {} THEN 0
    ELSE CHOOSE u \in ByEmail(users, email) : TRUE

\* a table without the unique email
CanCreate_any(users, email) == TRUE

\* create_user: the insert, which the store refuses for a known email
CanCreate(users, email) == ByEmail(users, email) = {}
NewUserId(users) == Cardinality(DOMAIN users) + 1
create_user(users, email) ==
    [u \in DOMAIN users \cup {NewUserId(users)} |->
        IF u \in DOMAIN users THEN users[u]
        ELSE [is_admin |-> FALSE, email |-> email, google_id |-> ""]]

\* update_user_oauth: the update, which the store refuses when another row
\* holds the google_id
CanLink(users, user_id, google_id) == ByGoogleId(users, google_id) \subseteq {user_id}

\* an update that leaves google_id out
update_user_oauth_skip(users, user_id, google_id) == users

update_user_oauth(users, user_id, google_id) ==
    [users EXCEPT ![user_id].google_id = google_id]

\* a profile without verified_email = True is not accepted
validate_google_profile_any(profile, verified_email) == TRUE

validate_google_profile(profile, verified_email) == verified_email

\* register(): the existence check, then create_user
register(email) ==
    /\ CanCreate(users_insight, email)
    /\ users_insight' = create_user(users_insight, email)
    /\ UNCHANGED <<now, refresh_tokens, issued, rp, history, link_vars>>

DoneCallback(h, code) ==
    [h EXCEPT !.pc = "done", !.code = code]

\* google_callback(), lines 317-337: the code exchange, the profile, its
\* validation, then the lookup by Google id
CallbackStart(p, profile, verified_email) ==
    /\ lp[p].pc \in {"idle", "done"}
    /\ \A q \in Procs : q < p => lp[q].pc # "idle"
    /\ callbacks < MaxCallbacks
    /\ callbacks' = callbacks + 1
    /\ LET h == [IdleCallback EXCEPT
                    !.google_id = profile.id, !.email = profile.email,
                    !.verified = verified_email,
                    !.known = ByGoogleId(users_insight, profile.id) # {},
                    !.owner = get_user_by_email(users_insight, profile.email, FALSE)]
       IN  \E oauth_ok, fails \in BOOLEAN :
             IF ~oauth_ok
             THEN lp' = [lp EXCEPT ![p] = DoneCallback(h, "OAUTH_ERROR")]
             ELSE IF ~validate_google_profile(profile, verified_email)
             THEN lp' = [lp EXCEPT ![p] = DoneCallback(h, "UNVERIFIED")]
             ELSE LET user == get_user_by_google_id(users_insight, profile.id, fails)
                  IN  lp' = [lp EXCEPT ![p] =
                          [h EXCEPT !.user = user, !.failed = fails,
                                    !.via = IF user # 0 THEN "google_id" ELSE "",
                                    !.pc = IF user # 0 THEN "resolved"
                                           ELSE "find_email"]]
    /\ UNCHANGED <<now, store, issued, rp, history>>

\* lines 340-342: get_user_by_email; an exception is passed over
CallbackFindByEmail(p) ==
    /\ lp[p].pc = "find_email"
    /\ \E fails \in BOOLEAN :
         LET h == lp[p]
             user == get_user_by_email(users_insight, h.email, fails)
         IN  lp' = [lp EXCEPT ![p] =
                 [h EXCEPT !.user = user, !.failed = h.failed \/ fails,
                           !.pc = IF user # 0 THEN "link" ELSE "create"]]
    /\ UNCHANGED <<now, store, issued, rp, history, callbacks>>

\* lines 343-347: update_user_oauth on the row found by email; an exception
\* is passed over and the row found stays the user
CallbackLink(p) ==
    /\ lp[p].pc = "link"
    /\ LET h == lp[p]
       IN  \E fails \in BOOLEAN :
             /\ IF fails \/ ~CanLink(users_insight, h.user, h.google_id)
                THEN UNCHANGED users_insight
                ELSE users_insight' =
                         update_user_oauth(users_insight, h.user, h.google_id)
             /\ lp' = [lp EXCEPT ![p] =
                    [h EXCEPT !.pc = "resolved", !.via = "email",
                              !.failed = h.failed \/ fails]]
    /\ UNCHANGED <<now, refresh_tokens, issued, rp, history, callbacks>>

\* lines 352-354: create_user
CallbackCreate(p) ==
    /\ lp[p].pc = "create"
    /\ LET h == lp[p]
       IN  \E fails \in BOOLEAN :
             IF fails \/ ~CanCreate(users_insight, h.email)
             THEN /\ lp' = [lp EXCEPT ![p] =
                        [h EXCEPT !.pc = "fallback", !.failed = h.failed \/ fails]]
                  /\ UNCHANGED users_insight
             ELSE /\ users_insight' = create_user(users_insight, h.email)
                  /\ lp' = [lp EXCEPT ![p] =
                        [h EXCEPT !.pc = "created",
                                  !.user_id = NewUserId(users_insight)]]
    /\ UNCHANGED <<now, refresh_tokens, issued, rp, history, callbacks>>

\* lines 355-356: update_user_oauth on the new row, get_user_by_id
CallbackLinkCreated(p) ==
    /\ lp[p].pc = "created"
    /\ LET h == lp[p]
       IN  \E fails, get_fails \in BOOLEAN :
             IF fails \/ ~CanLink(users_insight, h.user_id, h.google_id)
             THEN /\ lp' = [lp EXCEPT ![p] =
                        [h EXCEPT !.pc = "fallback", !.failed = h.failed \/ fails]]
                  /\ UNCHANGED users_insight
             ELSE /\ users_insight' =
                        update_user_oauth(users_insight, h.user_id, h.google_id)
                  /\ lp' = [lp EXCEPT ![p] =
                        IF get_fails
                        THEN [h EXCEPT !.pc = "fallback", !.failed = TRUE]
                        ELSE [h EXCEPT !.pc = "resolved", !.via = "created",
                                       !.user = h.user_id]]
    /\ UNCHANGED <<now, refresh_tokens, issued, rp, history, callbacks>>

\* lines 357-361: after a failed creation, get_user_by_email again; its
\* exception is raised on and ends the request
CallbackFallback(p) ==
    /\ lp[p].pc = "fallback"
    /\ \E fails \in BOOLEAN :
         LET h == lp[p]
             user == get_user_by_email(users_insight, h.email, fails)
         IN  lp' = [lp EXCEPT ![p] =
                 IF user = 0
                 THEN DoneCallback([h EXCEPT !.failed = h.failed \/ fails],
                                   "CALLBACK_ERROR")
                 ELSE [h EXCEPT !.user = user, !.pc = "fallback_link"]]
    /\ UNCHANGED <<now, store, issued, rp, history, callbacks>>

\* lines 362-366: update_user_oauth on the row found; its exception is
\* raised on and ends the request
CallbackFallbackLink(p) ==
    /\ lp[p].pc = "fallback_link"
    /\ LET h == lp[p]
       IN  \E fails \in BOOLEAN :
             IF fails \/ ~CanLink(users_insight, h.user, h.google_id)
             THEN /\ lp' = [lp EXCEPT ![p] =
                        DoneCallback([h EXCEPT !.failed = h.failed \/ fails],
                                     "CALLBACK_ERROR")]
                  /\ UNCHANGED users_insight
             ELSE /\ users_insight' =
                        update_user_oauth(users_insight, h.user, h.google_id)
                  /\ lp' = [lp EXCEPT ![p] =
                        [h EXCEPT !.pc = "resolved", !.via = "fallback"]]
    /\ UNCHANGED <<now, refresh_tokens, issued, rp, history, callbacks>>

\* line 368: create_auth_response(user), as after a password login
CallbackRespond(p) ==
    /\ lp[p].pc = "resolved"
    /\ Login(lp[p].user)
    /\ lp' = [lp EXCEPT ![p] =
           DoneCallback(@, IF issued' # issued THEN "OK" ELSE "CALLBACK_ERROR")]
    /\ UNCHANGED callbacks

\* update_user_profile: the update of the row's email, which the store
\* refuses when another row holds the email
CanUpdateEmail(users, user_id, email) == ByEmail(users, email) \subseteq {user_id}
update_user_profile(users, user_id, email) ==
    [users EXCEPT ![user_id].email = email]

\* profile() POST that submits another email: the row is updated first; a
\* refused update issues nothing, an accepted one is followed by the new pair
ProfileChangeEmail(pair, email) ==
    /\ pair \in issued
    /\ inserted < MaxIssued
    /\ LET u == pair[2].user_id
           access == generate_access_token(u, users_insight[u].is_admin, now)
           gen == generate_refresh_token(u, now)
           expires_at == now + STORE_EXPIRES
       IN  /\ users_insight[u].email # email
           /\ \E update_fails \in BOOLEAN :
                IF update_fails \/ ~CanUpdateEmail(users_insight, u, email)
                THEN UNCHANGED <<users_insight, refresh_tokens, issued,
                                 chain_of, inserted>>
                ELSE /\ users_insight' = update_user_profile(users_insight, u, email)
                     /\ \E fails \in BOOLEAN :
                          IF fails \/ ~CanInsert(refresh_tokens, gen[2])
                          THEN UNCHANGED <<refresh_tokens, issued, chain_of, inserted>>
                          ELSE /\ refresh_tokens' =
                                     create_refresh_token(refresh_tokens, u,
                                                          gen[2], expires_at)
                               /\ chain_of' =
                                     [h \in DOMAIN chain_of \cup {gen[2]} |->
                                        IF h = gen[2]
                                        THEN chain_of[hash_token(pair[2])]
                                        ELSE chain_of[h]]
                               /\ issued' = issued \cup {<<access, gen[1]>>}
                               /\ inserted' = inserted + 1
    /\ UNCHANGED <<now, rp, refreshes, rotated, logged_out, auth>>

\* ----------------------------------------------------------- AI usage
\* Table user_ai_usage holds one row per (user_id, post_id), which is what
\* the .single() reads of db.py rely on; a row that does not exist yet is
\* NoUsage. The calls to the store are taken to succeed in this part.

\* a read that resets the count as soon as any time has passed since the last use
get_user_ai_usage_short_window(rows, user_id, post_id, t) ==
    LET record == rows[<<user_id, post_id>>]
    IN  IF record = NoUsage
        THEN [usage |-> 0, rows |-> rows]
        ELSE IF t - record.last_used_at > 0
        THEN [usage |-> 0,
              rows |-> [rows EXCEPT ![<<user_id, post_id>>] =
                            [usage_count |-> 0, last_used_at |-> t]]]
        ELSE [usage |-> record.usage_count, rows |-> rows]

\* get_user_ai_usage: the count it returns and the table it leaves
get_user_ai_usage(rows, user_id, post_id, t) ==
    LET record == rows[<<user_id, post_id>>]
    IN  IF record = NoUsage
        THEN [usage |-> 0, rows |-> rows]
        ELSE IF t - record.last_used_at > AI_WINDOW
        THEN [usage |-> 0,
              rows |-> [rows EXCEPT ![<<user_id, post_id>>] =
                            [usage_count |-> 0, last_used_at |-> t]]]
        ELSE [usage |-> record.usage_count, rows |-> rows]

\* increment_user_ai_usage, the write that follows its select: `record` is
\* what the select returned
increment_user_ai_usage(rows, user_id, post_id, record, t) ==
    IF record # NoUsage
    THEN [rows EXCEPT ![<<user_id, post_id>>] =
              [usage_count |-> record.usage_count + 1, last_used_at |-> t]]
    ELSE [rows EXCEPT ![<<user_id, post_id>>] =
              [usage_count |-> 1, last_used_at |-> t]]

DoneChat(h, code, remaining) ==
    [IdleChat EXCEPT !.pc = "done", !.code = code, !.remaining = remaining,
                     !.user_id = h.user_id, !.is_admin = h.is_admin,
                     !.post_id = h.post_id, !.in_window = h.in_window,
                     !.used_before = h.used_before,
                     !.after_window = h.after_window]

\* ai_chat up to the rate-limit check, for a request whose access token
\* names user_id with the role the account has
ChatStart(p, user_id, post_id) ==
    /\ qp[p].pc \in {"idle", "done"}
    /\ \A q \in Procs : q < p => qp[q].pc # "idle"
    /\ chats < MaxChats
    /\ chats' = chats + 1
    /\ LET is_admin == users_insight[user_id].is_admin
           w == win[<<user_id, post_id>>]
           h == [IdleChat EXCEPT
                    !.user_id = user_id, !.is_admin = is_admin,
                    !.post_id = post_id,
                    !.in_window = ~is_admin /\ (w.start = -1 \/ now < w.start + AI_WINDOW),
                    !.used_before = IF is_admin THEN 0 ELSE w.used,
                    !.after_window = /\ ~is_admin
                                     /\ w.start # -1
                                     /\ now > w.start + AI_WINDOW
                                     /\ w.later = 0]
       IN  /\ win' = [win EXCEPT ![<<user_id, post_id>>].later =
                         IF is_admin \/ h.in_window THEN @ ELSE 1]
           /\ IF is_admin
              THEN /\ qp' = [qp EXCEPT ![p] =
                               [h EXCEPT !.pc = "checked",
                                         !.remaining_quota = UNLIMITED]]
                   /\ UNCHANGED user_ai_usage
              ELSE LET r == get_user_ai_usage(user_ai_usage, user_id, post_id, now)
                   IN  /\ user_ai_usage' = r.rows
                       /\ IF r.usage >= AI_LIMIT
                          THEN qp' = [qp EXCEPT ![p] = DoneChat(h, "LIMIT", 0)]
                          ELSE qp' = [qp EXCEPT ![p] =
                                   [h EXCEPT !.pc = "checked",
                                             !.remaining_quota = AI_LIMIT - r.usage]]
    /\ UNCHANGED now

\* the completion call, then the select of increment_user_ai_usage
ChatAnswer(p) ==
    /\ qp[p].pc = "checked"
    /\ LET h == qp[p]
       IN  \E answered \in BOOLEAN :
             IF ~answered
             THEN qp' = [qp EXCEPT ![p] = DoneChat(h, "ERROR", 0)]
             ELSE qp' = [qp EXCEPT ![p] =
                      [h EXCEPT !.pc = "answered",
                                !.record = user_ai_usage[<<h.user_id, h.post_id>>]]]
    /\ UNCHANGED <<now, user_ai_usage, chats, win>>

\* the write of increment_user_ai_usage, then the response; an insert for
\* a pair that has got a row in the meantime is refused by the store
ChatRecord(p) ==
    /\ qp[p].pc = "answered"
    /\ LET h == qp[p]
           k == <<h.user_id, h.post_id>>
           w == win[k]
       IN  IF h.record = NoUsage /\ user_ai_usage[k] # NoUsage
           THEN /\ qp' = [qp EXCEPT ![p] = DoneChat(h, "ERROR", 0)]
                /\ UNCHANGED <<user_ai_usage, win>>
           ELSE /\ user_ai_usage' =
                      increment_user_ai_usage(user_ai_usage, h.user_id, h.post_id,
                                              h.record, now)
                /\ qp' = [qp EXCEPT ![p] =
                      DoneChat(h, "OK", IF h.is_admin THEN UNLIMITED
                                        ELSE h.remaining_quota - 1)]
                /\ win' = IF h.is_admin THEN win
                          ELSE [win EXCEPT ![k] =
                                  [start |-> IF w.start = -1 THEN now ELSE w.start,
                                   used |-> IF h.in_window THEN w.used + 1 ELSE w.used,
                                   later |-> w.later]]
    /\ UNCHANGED <<now, chats>>

\* get_ai_usage_api, the "remaining" of its response: max(0, 3 - usage)
usage_remaining(usage) == IF AI_LIMIT - usage > 0 THEN AI_LIMIT - usage ELSE 0

get_ai_usage_api(user_id, post_id) ==
    /\ ~users_insight[user_id].is_admin
    /\ user_ai_usage' = get_user_ai_usage(user_ai_usage, user_id, post_id, now).rows
    /\ UNCHANGED <<now, qp, chats, win>>

TickQuota ==
    /\ now < MaxQuotaTime
    /\ now' = now + 1
    /\ UNCHANGED quota_vars
    /\ UNCHANGED link_vars

\* ------------------------------------------------------------------ Spec
\* every operation of the session service, one refresh() request at a time
Next ==
    /\ \/ Tick
       \/ \E u \in Users : Login(u)
       \/ \E token \in IssuedRefresh \cup {NoToken} : Logout(token)
       \/ \E token \in IssuedRefresh : RefreshStart(1, token)
       \/ RefreshGenerate(1)
       \/ RefreshRevoke(1)
       \/ RefreshStore(1)
       \/ \E pair \in issued : Profile(pair)
       \/ cleanup_expired_tokens
    /\ UNCHANGED quota_vars
    /\ UNCHANGED link_vars
    /\ UNCHANGED status_vars
    /\ UNCHANGED store_vars

Spec == Init /\ [][Next]_vars

\* one account, two refresh() requests in flight at once
InitRace ==
    /\ now = 0
    /\ refresh_tokens = {}
    /\ users_insight = [u \in {1} |->
                           [is_admin |-> FALSE, email |-> "e1", google_id |-> ""]]
    /\ issued = {}
    /\ rp = [p \in Procs |-> IdleHandler]
    /\ chain_of = [h \in {} |-> 0]
    /\ inserted = 0
    /\ refreshes = 0
    /\ rotated = {}
    /\ logged_out = {}
    /\ auth = NoAuth
    /\ user_ai_usage = [k \in Users \X Posts |-> NoUsage]
    /\ qp = [p \in Procs |-> IdleChat]
    /\ chats = 0
    /\ win = [k \in Users \X Posts |-> NoWindow]
    /\ lp = [p \in Procs |-> IdleCallback]
    /\ callbacks = 0
    /\ session = NoSession
    /\ status_resp = ""
    /\ status_req = <<NoToken, NoToken>>
    /\ statuses = 0
    /\ guard = NoGuard
    /\ requests = 0
    /\ store_op = NoStoreOp
    /\ store_ops = 0

NextRace ==
    /\ \/ Tick
       \/ \E u \in Users : Login(u)
       \/ \E p \in Procs, token \in IssuedRefresh : RefreshStart(p, token)
       \/ \E p \in Procs : RefreshGenerate(p)
       \/ \E p \in Procs : RefreshRevoke(p)
       \/ \E p \in Procs : RefreshStore(p)
    /\ UNCHANGED quota_vars
    /\ UNCHANGED link_vars
    /\ UNCHANGED status_vars
    /\ UNCHANGED store_vars

SpecRace == InitRace /\ [][NextRace]_vars

\* the stateless path: issuance, role changes and Authenticate
NextAuth ==
    /\ \/ Tick
       \/ \E u \in Users : inserted < MaxSessions /\ Login(u)
       \/ \E token \in IssuedRefresh \cup {NoToken} : Logout(token)
       \/ \E token \in IssuedRefresh : RefreshStart(1, token)
       \/ RefreshGenerate(1)
       \/ RefreshRevoke(1)
       \/ RefreshStore(1)
       \/ \E access \in IssuedAccess, u \in Users : toggle_admin(access, u)
       \/ \E token \in IssuedAccess : Authenticate(token)
    /\ UNCHANGED quota_vars
    /\ UNCHANGED link_vars
    /\ UNCHANGED status_vars
    /\ UNCHANGED store_vars

SpecAuth == Init /\ [][NextAuth]_vars

NextQuota ==
    /\ \/ TickQuota
       \/ \E p \in Procs, user_id \in Users, post_id \in Posts :
              ChatStart(p, user_id, post_id)
       \/ \E p \in Procs : ChatAnswer(p)
       \/ \E p \in Procs : ChatRecord(p)
       \/ \E user_id \in Users, post_id \in Posts : get_ai_usage_api(user_id, post_id)
    /\ UNCHANGED session_vars
    /\ UNCHANGED link_vars
    /\ UNCHANGED status_vars
    /\ UNCHANGED store_vars

SpecQuota == Init /\ [][NextQuota]_vars

\* one request at a time, each served within the instant it arrives in
NextQuotaSeq ==
    /\ \/ (qp[1].pc \in {"idle", "done"} /\ TickQuota)
       \/ \E user_id \in Users, post_id \in Posts : ChatStart(1, user_id, post_id)
       \/ ChatAnswer(1)
       \/ ChatRecord(1)
       \/ \E user_id \in Users, post_id \in Posts : get_ai_usage_api(user_id, post_id)
    /\ UNCHANGED session_vars
    /\ UNCHANGED link_vars
    /\ UNCHANGED status_vars
    /\ UNCHANGED store_vars

SpecQuotaSeq == Init /\ [][NextQuotaSeq]_vars

\* the accounts start empty; password registration and Google callbacks
InitLink ==
    /\ now = 0
    /\ refresh_tokens = {}
    /\ users_insight = [u \in {} |-> 0]
    /\ issued = {}
    /\ rp = [p \in Procs |-> IdleHandler]
    /\ chain_of = [h \in {} |-> 0]
    /\ inserted = 0
    /\ refreshes = 0
    /\ rotated = {}
    /\ logged_out = {}
    /\ auth = NoAuth
    /\ user_ai_usage = [k \in Users \X Posts |-> NoUsage]
    /\ qp = [p \in Procs |-> IdleChat]
    /\ chats = 0
    /\ win = [k \in Users \X Posts |-> NoWindow]
    /\ lp = [p \in Procs |-> IdleCallback]
    /\ callbacks = 0
    /\ session = NoSession
    /\ status_resp = ""
    /\ status_req = <<NoToken, NoToken>>
    /\ statuses = 0
    /\ guard = NoGuard
    /\ requests = 0
    /\ store_op = NoStoreOp
    /\ store_ops = 0

NextLink ==
    /\ \/ \E email \in Emails : register(email)
       \/ \E p \in Procs, profile \in GoogleProfiles, verified_email \in BOOLEAN :
              CallbackStart(p, profile, verified_email)
       \/ \E p \in Procs : CallbackFindByEmail(p)
       \/ \E p \in Procs : CallbackLink(p)
       \/ \E p \in Procs : CallbackCreate(p)
       \/ \E p \in Procs : CallbackLinkCreated(p)
       \/ \E p \in Procs : CallbackFallback(p)
       \/ \E p \in Procs : CallbackFallbackLink(p)
       \/ \E p \in Procs : CallbackRespond(p)
    /\ UNCHANGED quota_vars
    /\ UNCHANGED status_vars
    /\ UNCHANGED store_vars

SpecLink == InitLink /\ [][NextLink]_vars

\* sign-ins with Google one after the other, registrations, and signed-in
\* accounts that change their email in between
NextLinkProfile ==
    /\ \/ (\E email \in Emails : register(email))
       \/ (\E profile \in GoogleProfiles, verified_email \in BOOLEAN :
              CallbackStart(1, profile, verified_email))
       \/ CallbackFindByEmail(1)
       \/ CallbackLink(1)
       \/ CallbackCreate(1)
       \/ CallbackLinkCreated(1)
       \/ CallbackFallback(1)
       \/ CallbackFallbackLink(1)
       \/ CallbackRespond(1)
       \/ (\E pair \in issued, email \in Emails :
              ProfileChangeEmail(pair, email) /\ UNCHANGED link_vars)
    /\ UNCHANGED quota_vars
    /\ UNCHANGED status_vars
    /\ UNCHANGED store_vars

SpecLinkProfile == InitLink /\ [][NextLinkProfile]_vars

\* one client: logins, the clock, auth_status, requests to decorated routes
NextStatus ==
    /\ \/ (Tick /\ UNCHANGED status_vars)
       \/ \E u \in Users : ClientLogin(u)
       \/ \E access \in IssuedAccess \cup {NoToken},
             refresh \in IssuedRefresh \cup {NoToken} : auth_status(access, refresh)
       \/ \E decorator \in {"jwt_required", "admin_required"},
             token \in IssuedAccess \cup IssuedRefresh \cup {NoToken} :
               Request(decorator, token)
    /\ UNCHANGED quota_vars
    /\ UNCHANGED link_vars
    /\ UNCHANGED store_vars

SpecStatus == Init /\ [][NextStatus]_vars

\* either kind of token in either cookie: logins, the clock, refresh() with
\* any token held, requests to decorated routes with any token held
NextKind ==
    /\ \/ (Tick /\ UNCHANGED status_vars)
       \/ \E u \in Users : (Login(u) /\ UNCHANGED status_vars)
       \/ \E p \in Procs, token \in IssuedRefresh \cup IssuedAccess :
            (RefreshStartAnyCookie(p, token) /\ UNCHANGED status_vars)
       \/ \E p \in Procs :
            ((RefreshGenerate(p) \/ RefreshRevoke(p) \/ RefreshStore(p))
             /\ UNCHANGED status_vars)
       \/ \E decorator \in {"jwt_required", "admin_required"},
             token \in IssuedAccess \cup IssuedRefresh \cup {NoToken} :
               Request(decorator, token)
    /\ UNCHANGED quota_vars
    /\ UNCHANGED link_vars
    /\ UNCHANGED store_vars

SpecKind == InitRace /\ [][NextKind]_vars

\* ------------------------------------------- the refresh_tokens functions
\* the functions of db.py called one at a time, with the arguments their
\* callers pass: the hash of a refresh token generated by now, and
\* expires_at = now + STORE_EXPIRES (store_refresh_token_in_db)
StoreFrame ==
    UNCHANGED <<users_insight, issued, rp, history, quota_vars, link_vars, status_vars>>

StoreCalled(op, user_id, token_hash, ok, found) ==
    /\ store_ops < MaxStoreOps
    /\ store_ops' = store_ops + 1
    /\ store_op' = [op |-> op, user_id |-> user_id, token_hash |-> token_hash,
                    at |-> now, ok |-> ok, found |-> found, before |-> refresh_tokens]

TickStore ==
    /\ now < MaxStoreTime
    /\ now' = now + 1
    /\ UNCHANGED <<refresh_tokens, store_vars>>
    /\ StoreFrame

\* create_refresh_token(user_id, token_hash, expires_at): the insert raises on
\* a store failure and on a token_hash that is already there
StoreCreate(user_id, t) ==
    /\ t \in 0..now
    /\ LET token_hash == generate_refresh_token(user_id, t)[2]
       IN  \E fails \in BOOLEAN :
             IF fails \/ ~CanInsert(refresh_tokens, token_hash)
             THEN /\ UNCHANGED refresh_tokens
                  /\ StoreCalled("create_refresh_token", user_id, token_hash, FALSE, {})
             ELSE /\ refresh_tokens' =
                        create_refresh_token(refresh_tokens, user_id, token_hash,
                                             now + STORE_EXPIRES)
                  /\ StoreCalled("create_refresh_token", user_id, token_hash, TRUE, {})
    /\ UNCHANGED now
    /\ StoreFrame

\* get_refresh_token(token_hash)
StoreGet(user_id, t) ==
    /\ t \in 0..now
    /\ LET token_hash == generate_refresh_token(user_id, t)[2]
       IN  \E fails \in BOOLEAN :
             StoreCalled("get_refresh_token", user_id, token_hash, ~fails,
                         get_refresh_token(refresh_tokens, token_hash, fails))
    /\ UNCHANGED <<now, refresh_tokens>>
    /\ StoreFrame

\* revoke_refresh_token(token_hash)
StoreRevoke(user_id, t) ==
    /\ t \in 0..now
    /\ LET token_hash == generate_refresh_token(user_id, t)[2]
       IN  \E fails \in BOOLEAN :
             /\ refresh_tokens' = IF fails THEN refresh_tokens
                                  ELSE revoke_refresh_token(refresh_tokens, token_hash)
             /\ StoreCalled("revoke_refresh_token", user_id, token_hash, ~fails, {})
    /\ UNCHANGED now
    /\ StoreFrame

\* revoke_all_user_tokens(user_id)
StoreRevokeAll(user_id) ==
    /\ \E fails \in BOOLEAN :
         /\ refresh_tokens' = IF fails THEN refresh_tokens
                              ELSE revoke_all_user_tokens(refresh_tokens, user_id)
         /\ StoreCalled("revoke_all_user_tokens", user_id, <<>>, ~fails, {})
    /\ UNCHANGED now
    /\ StoreFrame

\* cleanup_expired_tokens(): done is the number of delete statements executed
\* before an exception, 2 if there is none
StoreCleanup ==
    /\ \E done \in 0..2 :
         /\ refresh_tokens' =
              IF done = 0 THEN refresh_tokens
              ELSE IF done = 1 THEN DeleteExpired(refresh_tokens, now)
              ELSE DeleteRevoked(DeleteExpired(refresh_tokens, now))
         /\ StoreCalled("cleanup_expired_tokens", 0, <<>>, done = 2, {})
    /\ UNCHANGED now
    /\ StoreFrame

NextStore ==
    \/ TickStore
    \/ \E user_id \in Users, t \in 0..MaxStoreTime : StoreCreate(user_id, t)
    \/ \E user_id \in Users, t \in 0..MaxStoreTime : StoreGet(user_id, t)
    \/ \E user_id \in Users, t \in 0..MaxStoreTime : StoreRevoke(user_id, t)
    \/ \E user_id \in Users : StoreRevokeAll(user_id)
    \/ StoreCleanup

SpecStore == Init /\ [][NextStore]_vars

\* ----------------------------------------------------------------- claims
ActiveRows == {r \in refresh_tokens : ~r.revoked /\ r.expires_at > now}

\* a refresh() request is received on this step by handler p
Starts(p) ==
    /\ refreshes' = refreshes + 1
    /\ rp'[p].pc # "idle"
    /\ \A q \in Procs \ {p} : rp'[q] = rp[q]
    /\ rp[p].pc \in {"idle", "done"}

\* C1: of two refresh() requests that present the same refresh token, one
\* arriving while the other is being served, at most one returns a new pair
C1_ExactlyOneSucceeds ==
    \A p, q \in Procs :
        (p # q /\ rp[p].pc = "done" /\ rp[q].pc = "done"
              /\ rp[p].token = rp[q].token /\ rp[q].raced)
        => ~(rp[p].code = "OK" /\ rp[q].code = "OK")

\* C2: once refresh() has returned 200 for a refresh token, every refresh()
\* request received later with that token is answered REVOKED_TOKEN
C2_RotationSingleUse ==
    [][\A p \in Procs :
         (Starts(p) /\ rp'[p].token \in rotated) => rp'[p].code = "REVOKED_TOKEN"]_vars

\* C3: once logout() has been called with a refresh token, every refresh()
\* request received later with that token is answered REVOKED_TOKEN
C3_LogoutThenRefreshFails ==
    [][\A p \in Procs :
         (Starts(p) /\ rp'[p].token \in logged_out) => rp'[p].code = "REVOKED_TOKEN"]_vars

\* C4: no state has the presented token's row revoked by a refresh() request
\* whose replacement row is not in the table
C4_NoPartialRotation ==
    \A p \in Procs :
        rp[p].revoked_old =>
            \/ rp[p].code = "OK"
            \/ \E r \in refresh_tokens : r.token_hash = hash_token(rp[p].new_refresh)

\* C5: the rows descended from one login hold at most one active row
C5_OneActivePerChain ==
    \A r1, r2 \in ActiveRows :
        chain_of[r1.token_hash] = chain_of[r2.token_hash] => r1 = r2

\* C6: Authenticate on an issued access token succeeds with the subject and
\* role it was issued for at every time before its expiry, and fails as
\* expired from the expiry instant on
C6_AuthenticateUntilExpiry ==
    auth.token # NoToken =>
        /\ auth.token.iat + ACCESS_TOKEN_EXPIRES = auth.token.exp
        /\ (now < auth.token.exp) =>
              /\ auth.ok
              /\ auth.user = auth.token.user_id
              /\ auth.is_admin = auth.token.is_admin
        /\ (now >= auth.token.exp) =>
              /\ ~auth.ok
              /\ auth.error = "Access token has expired"

\* an Authenticate call at the expiry instant itself
C6_Witness ==
    /\ auth.token # NoToken
    /\ now = auth.token.exp
    /\ ~auth.ok

\* C7: a step that authenticates an access token leaves the tables and the
\* issued credentials as they are, and its outcome is success exactly when
\* the token is unexpired, whatever the tables hold
C7_AuthenticateStateless ==
    [][\A token \in IssuedAccess :
         (auth' # auth /\ auth'.token = token /\ now' = now) =>
            /\ UNCHANGED <<refresh_tokens, users_insight, user_ai_usage, issued, rp>>
            /\ auth'.ok = (now < token.exp)
            /\ auth'.ok => (auth'.user = token.user_id
                             /\ auth'.is_admin = token.is_admin)]_vars

\* Authenticate succeeds for a session whose refresh row is revoked and whose
\* account no longer has the role the token carries
C7_Witness ==
    /\ auth.ok
    /\ auth.stale

\* C8: ai_chat never answers more than AI_LIMIT questions of a non-admin user
\* about one post that were asked inside the pair's first window
C8_AtMostLimitAllowed ==
    \A k \in Users \X Posts : win[k].used <= AI_LIMIT

\* C9: of the questions a non-admin user asks one after another about one
\* post, those asked inside the first window are answered exactly while fewer
\* than AI_LIMIT were answered before, and the first one asked after the
\* window has elapsed is answered with remaining = AI_LIMIT - 1
C9_SequentialCalls ==
    \A p \in Procs :
        (qp[p].pc = "done" /\ ~qp[p].is_admin /\ qp[p].code \in {"OK", "LIMIT"}) =>
            /\ qp[p].in_window =>
                  ((qp[p].code = "OK") <=> (qp[p].used_before < AI_LIMIT))
            /\ qp[p].after_window =>
                  (qp[p].code = "OK" /\ qp[p].remaining = AI_LIMIT - 1)

\* C10: a step that adds one to the count of an existing usage row leaves
\* the row's window anchor where it was
C10_AnchorNotMoved ==
    [][\A k \in Users \X Posts :
         (~users_insight[k[1]].is_admin
             /\ user_ai_usage[k] # NoUsage
             /\ user_ai_usage'[k].usage_count = user_ai_usage[k].usage_count + 1)
         => user_ai_usage'[k].last_used_at = user_ai_usage[k].last_used_at]_vars

\* a google_callback() request that was not made to see a store failure and
\* has resolved its profile to an account
Resolved(p) == lp[p].via # "" /\ ~lp[p].failed

\* C11: google_callback() requests for a profile that had no account when
\* they arrived, and whose store calls all worked, do not end in an error of
\* the resolution; those that resolved hold the same account, the only one
\* with that email
C11_ConcurrentResolveOneAccount ==
    \A p \in Procs :
        (~lp[p].known /\ lp[p].owner = 0 /\ ~lp[p].failed) =>
            /\ lp[p].code = "CALLBACK_ERROR" => lp[p].via # ""
            /\ Resolved(p) =>
                  /\ ByEmail(users_insight, lp[p].email) = {lp[p].user}
                  /\ \A q \in Procs :
                        (Resolved(q) /\ lp[q].email = lp[p].email)
                        => lp[q].user = lp[p].user

\* two requests for one new profile: one created the account, the other was
\* refused the insert and found the account by email
C11_Witness ==
    \E p, q \in Procs :
        /\ Resolved(p) /\ lp[p].via = "created"
        /\ Resolved(q) /\ lp[q].via = "fallback"
        /\ lp[p].email = lp[q].email
        /\ ~lp[q].known /\ lp[q].owner = 0

\* C12: two google_callback() requests that resolved the same Google id hold
\* the same account, and a request that arrives when its Google id is
\* attached to an account creates none
C12_SameExternalIdSameAccount ==
    \A p \in Procs :
        /\ (lp[p].known /\ lp[p].via # "") => lp[p].via # "created"
        /\ lp[p].known => lp[p].pc # "created"
        /\ \A q \in Procs :
              (lp[p].via # "" /\ lp[q].via # "" /\ lp[p].google_id = lp[q].google_id)
              => lp[p].user = lp[q].user

\* a Google id resolved a second time, after another profile was resolved
C12_Witness ==
    \E p, q \in Procs :
        /\ p # q
        /\ lp[p].via # "" /\ lp[q].via # ""
        /\ lp[p].google_id = lp[q].google_id
        /\ lp[q].known
        /\ \E u \in DOMAIN users_insight :
              users_insight[u].google_id \notin {"", lp[p].google_id}

\* C13: a google_callback() request whose profile email belonged to an account
\* without Google id when it arrived, and whose store calls all worked,
\* resolves to that account, which then carries the profile's Google id and
\* is the only account with that email
C13_LinkByEmail ==
    \A p \in Procs :
        (~lp[p].known /\ lp[p].owner # 0 /\ Resolved(p)) =>
            /\ lp[p].user = lp[p].owner
            /\ users_insight[lp[p].owner].google_id = lp[p].google_id
            /\ ByEmail(users_insight, lp[p].email) = {lp[p].owner}
            /\ lp[p].via = "email"

C13_Witness ==
    \E p \in Procs :
        /\ ~lp[p].known /\ lp[p].owner # 0 /\ Resolved(p)
        /\ lp[p].code = "OK"

\* C14: a google_callback() request whose profile has verified_email false
\* ends at once, flashing the error, and the step leaves the accounts, the
\* refresh rows and the delivered credentials as they were
C14_UnverifiedFailsClosed ==
    [][\A p \in Procs :
         (lp'[p] # lp[p] /\ ~lp'[p].verified) =>
            /\ lp'[p].pc = "done"
            /\ lp'[p].code \in {"UNVERIFIED", "OAUTH_ERROR"}
            /\ lp'[p].user = 0
            /\ UNCHANGED <<refresh_tokens, users_insight, issued>>]_vars

C14_Witness ==
    \E p \in Procs : lp[p].code = "UNVERIFIED" /\ ~lp[p].verified

\* a step of create_auth_response after a login: it starts a new chain
LoginStep ==
    /\ inserted' = inserted + 1
    /\ \E h \in DOMAIN chain_of' : chain_of'[h] = inserted'

\* C15: a login delivers nothing, or exactly one new pair made of an access
\* and a refresh token of the one user, and then the table holds a
\* non-revoked row with the refresh token's hash and user; no pair is
\* delivered by a step that recorded no row
C15_LoginRecordsBeforeDelivery ==
    [][/\ (issued' # issued) => (inserted' = inserted + 1)
       /\ LoginStep =>
            \/ issued' = issued
            \/ \E pair \in issued' \ issued :
                 /\ issued' = issued \cup {pair}
                 /\ pair[1].type = "access" /\ pair[2].type = "refresh"
                 /\ pair[1].user_id = pair[2].user_id
                 /\ \E r \in refresh_tokens' :
                      /\ r.token_hash = hash_token(pair[2])
                      /\ r.user_id = pair[2].user_id
                      /\ ~r.revoked]_vars

\* the last row inserted started a chain and its pair was delivered
C15_Witness ==
    \E pair \in issued : \E r \in refresh_tokens :
        /\ r.token_hash = hash_token(pair[2])
        /\ chain_of[r.token_hash] = inserted
        /\ ~r.revoked

\* C16: logout() can be called with any delivered refresh token, whatever
\* its row is, and without one; revoking a hash twice gives the table that
\* revoking it once gives; a logout() changes nothing but the revoked flag
\* of the rows with the token's hash
C16_LogoutAlwaysIdempotent ==
    /\ \A token \in IssuedRefresh \cup {NoToken} : ENABLED Logout(token)
    /\ \A token \in IssuedRefresh :
          LET once == revoke_refresh_token(refresh_tokens, hash_token(token))
          IN  /\ revoke_refresh_token(once, hash_token(token)) = once
              /\ \A r \in once : r.token_hash = hash_token(token) => r.revoked
              /\ {r \in once : r.token_hash # hash_token(token)}
                     = {r \in refresh_tokens : r.token_hash # hash_token(token)}

\* logout() was called with a token whose row is revoked and with one whose
\* row is gone
C16_Witness ==
    /\ \E token \in logged_out :
          \E r \in refresh_tokens : r.token_hash = hash_token(token) /\ r.revoked
    /\ \E token \in logged_out :
          \A r \in refresh_tokens : r.token_hash # hash_token(token)

\* C17: a refresh() request with an unexpired refresh token that has no
\* non-revoked row is answered REVOKED_TOKEN, with nothing else in the
\* response and no change to the tables, whether the row is revoked or is
\* not there
C17_SameFailureForAbsentAndRevoked ==
    [][\A p \in Procs :
         (/\ Starts(p)
          /\ verify_refresh_token(rp'[p].token, now).ok
          /\ \A r \in refresh_tokens :
                r.token_hash = hash_token(rp'[p].token) => r.revoked)
         => /\ rp'[p] = [IdleHandler EXCEPT !.pc = "done", !.code = "REVOKED_TOKEN",
                                            !.token = rp'[p].token,
                                            !.raced = rp'[p].raced]
            /\ UNCHANGED <<refresh_tokens, users_insight, issued>>]_vars

\* REVOKED_TOKEN for an unexpired token whose row has been deleted
C17_Witness ==
    \E p \in Procs :
        /\ rp[p].code = "REVOKED_TOKEN"
        /\ verify_refresh_token(rp[p].token, now).ok
        /\ \A r \in refresh_tokens : r.token_hash # hash_token(rp[p].token)

\* C18: an auth_status() request is answered as authenticated, as in need of
\* a refresh or as unauthenticated, and leaves the tables and the session of the client as they were
C18_StatusMutatesNothing ==
    [][statuses' # statuses =>
          /\ status_resp' \in {"authenticated", "access_token_missing",
                               "access_token_expired", "no_tokens", "token_invalid"}
          /\ UNCHANGED <<refresh_tokens, users_insight, session>>]_vars

\* C19: a store call that fails is never answered as a revoked session: a
\* refresh() request whose token verifies and whose hash has a row that is
\* neither revoked nor expired does not end with REVOKED_TOKEN
C19_StoreFailureNotReportedAsRevoked ==
    [][\A p \in Procs :
          (/\ Starts(p)
           /\ verify_refresh_token(rp'[p].token, now).ok
           /\ \E r \in ActiveRows : r.token_hash = hash_token(rp'[p].token))
          => rp'[p].code # "REVOKED_TOKEN"]_vars

\* C20: the function behind jwt_required is called only for a cookie that is
\* an unexpired token of type access, and behind admin_required only if that
\* token also carries is_admin; every other request is answered 401, except
\* that admin_required answers 403 to an unexpired access token without
\* is_admin; a request whose cookie qualifies is not turned away
C20_GuardsAdmitOnlyAccess ==
    guard.decorator # "" =>
        LET presented == guard.token # NoToken
            access == /\ presented
                      /\ guard.token.type = "access"
                      /\ guard.token.exp > guard.at
            admin == guard.decorator = "admin_required"
        IN  /\ guard.ran <=> (access /\ (admin => guard.token.is_admin))
            /\ guard.ran => guard.status = 200
            /\ ~access => guard.status = 401
            /\ (access /\ admin /\ ~guard.token.is_admin) => guard.status = 403

C20_Witness ==
    /\ guard.decorator = "admin_required"
    /\ guard.ran
    /\ guard.token.is_admin

\* C21: the refresh token that refresh() generates differs from the one it
\* replaces, and so do their hashes
C21_RotationYieldsDifferentCredential ==
    \A p \in Procs :
        rp[p].new_refresh # NoToken =>
            /\ rp[p].new_refresh # rp[p].token
            /\ hash_token(rp[p].new_refresh) # hash_token(rp[p].token)

\* C22: the hash that generate_refresh_token returns with a token is the
\* hash_token of that token, so the key that refresh() and logout() compute
\* from a delivered refresh token is a key that was recorded at its issuance
C22_LookupKeyMatchesRecordedKey ==
    \A pair \in issued :
        /\ generate_refresh_token(pair[2].user_id, pair[2].iat)
               = <<pair[2], hash_token(pair[2])>>
        /\ hash_token(pair[2]) \in DOMAIN chain_of

C22_Witness ==
    /\ \E p \in Procs :
         /\ rp[p].pc = "got_token"
         /\ \E r \in refresh_tokens : r.token_hash = hash_token(rp[p].token)
    /\ \E token \in logged_out :
         \E r \in refresh_tokens :
            r.token_hash = hash_token(token) /\ r.revoked

\* C23: refresh() never gets past verification with an access token, and a
\* decorated route never runs for a refresh token: both are turned away as
\* invalid tokens, expired or not
C23_WrongKindNeverVerifies ==
    /\ \A p \in Procs :
         (rp[p].pc # "idle" /\ rp[p].token.type = "access") =>
             /\ rp[p].pc = "done"
             /\ rp[p].code = "INVALID_REFRESH_TOKEN"
             /\ rp[p].new_refresh = NoToken
    /\ guard.token.type = "refresh" =>
         /\ ~guard.ran
         /\ guard.status = 401
         /\ guard.code = "INVALID_TOKEN"

C23_Witness ==
    /\ \E p \in Procs :
         /\ rp[p].token.type = "access"
         /\ rp[p].token.exp > now
         /\ rp[p].code = "INVALID_REFRESH_TOKEN"
    /\ guard.token.type = "refresh"
    /\ guard.token.exp > guard.at
    /\ guard.code = "INVALID_TOKEN"

\* C24: get_refresh_token returns a row only if the row is not revoked and
\* its expires_at is after the time of the call
C24_FindActiveOnlyUnexpired ==
    store_op.op = "get_refresh_token" =>
        \A r \in store_op.found : ~r.revoked /\ r.expires_at > store_op.at

\* C25: a completed cleanup_expired_tokens deletes exactly the rows whose
\* expires_at is before the time of the call; every other row, revoked or
\* not, stays as it was
C25_GarbageCollectOnlyExpired ==
    (store_op.op = "cleanup_expired_tokens" /\ store_op.ok) =>
        refresh_tokens = {r \in store_op.before : ~(r.expires_at < store_op.at)}

\* C26: create_refresh_token with a token_hash that a row already has,
\* revoked or not, raises and leaves the table as it was
C26_DuplicateInsertRejected ==
    (/\ store_op.op = "create_refresh_token"
     /\ \E r \in store_op.before : r.token_hash = store_op.token_hash)
    => /\ ~store_op.ok
       /\ refresh_tokens = store_op.before

C26_Witness ==
    /\ store_op.op = "create_refresh_token"
    /\ ~store_op.ok
    /\ \E r \in refresh_tokens : r.token_hash = store_op.token_hash /\ r.revoked

\* C27: after a completed revoke_all_user_tokens(user_id) every row of that
\* user is revoked and get_refresh_token finds none of them; the rows of the
\* other users are as before and no row is added or removed
C27_RevokeAllForSubject ==
    (store_op.op = "revoke_all_user_tokens" /\ store_op.ok) =>
        /\ \A r \in refresh_tokens : r.user_id = store_op.user_id => r.revoked
        /\ \A r \in store_op.before :
              r.user_id = store_op.user_id =>
                  get_refresh_token(refresh_tokens, r.token_hash, FALSE) = {}
        /\ {r \in refresh_tokens : r.user_id # store_op.user_id}
              = {r \in store_op.before : r.user_id # store_op.user_id}
        /\ {r.token_hash : r \in refresh_tokens}
              = {r.token_hash : r \in store_op.before}

C27_Witness ==
    /\ store_op.op = "revoke_all_user_tokens"
    /\ store_op.ok
    /\ \E r \in store_op.before : r.user_id = store_op.user_id /\ ~r.revoked
    /\ \E r \in refresh_tokens : r.user_id # store_op.user_id /\ ~r.revoked

C29_AllowedIncrementsByOne ==
    [][\A p \in Procs :
          LET k == <<qp[p].user_id, qp[p].post_id>>
          IN  (/\ qp[p].pc \in {"checked", "answered"}
               /\ ~qp[p].is_admin
               /\ qp'[p].pc = "done")
              => /\ user_ai_usage'[k].usage_count = user_ai_usage[k].usage_count + 1
                 /\ qp'[p].remaining = AI_LIMIT - user_ai_usage'[k].usage_count]_vars

\* C30: an ai_chat() request of an admin is never answered with the limit
\* error, and one that is answered reports UNLIMITED and adds one to the
\* count of its usage row
C30_BypassRecordsUsage ==
    [][\A p \in Procs :
          LET k == <<qp[p].user_id, qp[p].post_id>>
          IN  /\ qp'[p].is_admin => qp'[p].code # "LIMIT"
              /\ (/\ qp[p].pc = "answered"
                  /\ qp[p].is_admin
                  /\ qp'[p].pc = "done"
                  /\ qp'[p].code = "OK")
                 => /\ qp'[p].remaining = UNLIMITED
                    /\ user_ai_usage'[k].usage_count
                           = user_ai_usage[k].usage_count + 1]_vars

\* C31: a google_callback() request whose Google id has a row, and whose
\* store calls worked, takes that row as its user straight away: it runs
\* neither the lookup by email nor the creation, and none of its steps
\* changes a row of users_insight
C31_FoundByExternalIdUnchanged ==
    [][\A p \in Procs :
          /\ (/\ lp'[p].pc # "idle"
              /\ lp'[p].known
              /\ ~lp'[p].failed
              /\ lp'[p].code \notin {"OAUTH_ERROR", "UNVERIFIED"})
             => /\ lp'[p].via = "google_id"
                /\ lp'[p].pc \in {"resolved", "done"}
          /\ (lp'[p] # lp[p] /\ lp'[p].via = "google_id")
             => /\ users_insight' = users_insight
                /\ lp'[p].pc \in {"resolved", "done"}
                /\ lp'[p].user \in ByGoogleId(users_insight, lp'[p].google_id)]_vars

C31_Witness ==
    \E p \in Procs :
        /\ lp[p].via = "google_id"
        /\ lp[p].pc = "done"
        /\ lp[p].code = "OK"
        /\ users_insight[lp[p].user].google_id = lp[p].google_id

\* C32: the access token and the refresh token that refresh() returns name
\* the user of the refresh token presented, and the row inserted for the new
\* refresh token carries that user
C32_RefreshKeepsSubject ==
    [][\A p \in Procs :
          (rp[p].pc = "revoked" /\ rp'[p].code = "OK") =>
              /\ <<rp[p].new_access, rp[p].new_refresh>> \in issued'
              /\ issued' \ issued \subseteq {<<rp[p].new_access, rp[p].new_refresh>>}
              /\ rp[p].new_access.user_id = rp[p].token.user_id
              /\ rp[p].new_refresh.user_id = rp[p].token.user_id
              /\ \E r \in refresh_tokens' :
                    /\ refresh_tokens' \ refresh_tokens = {r}
                    /\ r.token_hash = hash_token(rp[p].new_refresh)
                    /\ r.user_id = rp[p].token.user_id]_vars

C32_Witness ==
    \E p \in Procs :
        /\ rp[p].code = "OK"
        /\ rp[p].token.user_id = 2
        /\ rp[p].token \in rotated
        /\ \E pair \in issued :
              /\ pair[2].user_id = 2
              /\ pair[2] # rp[p].token
              /\ \E r \in refresh_tokens :
                    r.token_hash = hash_token(pair[2]) /\ r.user_id = 2

\* C33: auth_status() answers authenticated exactly when the access cookie
\* verifies, with a reason that allows a refresh exactly when it does not and
\* a refresh cookie is there, and as unauthenticated exactly when it does
\* not and there is no refresh cookie
C33_StatusReportsExactly ==
    [][statuses' # statuses =>
          LET access == status_req'[1]
              refresh == status_req'[2]
              verifies == /\ access # NoToken
                          /\ access.type = "access"
                          /\ access.exp > now
          IN  /\ status_resp' \in {"authenticated", "access_token_missing",
                                   "access_token_expired", "no_tokens",
                                   "token_invalid"}
              /\ (status_resp' = "authenticated") <=> verifies
              /\ (status_resp' \in {"access_token_missing", "access_token_expired"})
                    <=> (~verifies /\ refresh # NoToken)
              /\ (status_resp' \in {"no_tokens", "token_invalid"})
                    <=> (~verifies /\ refresh = NoToken)]_vars

\* C34: a token hash that refresh() has revoked (the requests that answered
\* 200, and the request each handler served last) never again has a
\* non-revoked row in the table
C34_RevokedIsAbsorbing ==
    \A token \in rotated \cup {rp[p].token : p \in {q \in Procs : rp[q].revoked_old}} :
        \A r \in refresh_tokens :
            r.token_hash = hash_token(token) => r.revoked

\* C35: a pair is delivered only by a login or by a refresh() request that
\* got through its lookup and rotation
C35_IssuedOnlyByLoginOrRefresh ==
    [][issued' # issued =>
          \/ LoginStep
          \/ \E p \in Procs : rp[p].pc = "revoked" /\ rp'[p].code = "OK"]_vars

\* C36: a refresh() request whose token does not verify, or whose hash has
\* no non-revoked row, ends at once with INVALID_REFRESH_TOKEN or
\* REVOKED_TOKEN; that step, and the step that fails to load the user, leave
\* table refresh_tokens as it was and deliver no pair
C36_FailedRefreshChangesNothing ==
    [][\A p \in Procs :
          /\ (/\ Starts(p)
              /\ \/ ~verify_refresh_token(rp'[p].token, now).ok
                 \/ ~\E r \in refresh_tokens :
                        r.token_hash = hash_token(rp'[p].token) /\ ~r.revoked)
             => /\ rp'[p].pc = "done"
                /\ rp'[p].code \in {"INVALID_REFRESH_TOKEN", "REVOKED_TOKEN"}
          /\ (\/ Starts(p)
              \/ (rp[p].pc = "got_token" /\ rp'[p].pc = "done"))
             => /\ refresh_tokens' = refresh_tokens
                /\ issued' = issued
                /\ rp'[p].pc = "done" =>
                      /\ rp'[p].code \in {"INVALID_REFRESH_TOKEN", "REVOKED_TOKEN",
                                          "REFRESH_ERROR"}
                      /\ ~rp'[p].revoked_old
                      /\ rp'[p].new_refresh = NoToken]_vars

C36_Witness ==
    \E p \in Procs :
        /\ rp[p].pc = "done"
        /\ rp[p].code = "REVOKED_TOKEN"
        /\ verify_refresh_token(rp[p].token, now).ok
        /\ \E r \in refresh_tokens :
              r.token_hash = hash_token(rp[p].token) /\ r.revoked
        /\ \E r \in refresh_tokens : ~r.revoked

\* C37: the access token that refresh() generates carries the is_admin that
\* the user's row holds when refresh() reads it, and that token is the one
\* delivered when the request succeeds
C37_RefreshCarriesStoredRole ==
    [][\A p \in Procs :
          /\ (rp[p].pc = "got_token" /\ rp'[p].pc = "generated") =>
                /\ rp'[p].new_access.type = "access"
                /\ rp'[p].new_access.user_id = rp[p].token.user_id
                /\ rp'[p].new_access.is_admin
                       = users_insight[rp[p].token.user_id].is_admin
          /\ (rp[p].pc = "generated" /\ rp'[p].pc = "revoked") =>
                rp'[p].new_access = rp[p].new_access
          /\ (rp[p].pc = "revoked" /\ rp'[p].code = "OK") =>
                <<rp[p].new_access, rp[p].new_refresh>> \in issued']_vars

C37_Witness ==
    \E p \in Procs :
        /\ rp[p].code = "OK"
        /\ \E old \in issued, new \in issued :
              /\ old[2] = rp[p].token
              /\ new[1].user_id = rp[p].token.user_id
              /\ new[1].iat > old[1].iat
              /\ new[1].is_admin # old[1].is_admin
              /\ new[1].is_admin = users_insight[rp[p].token.user_id].is_admin

\* C38: for every refresh token delivered, refresh() answers the same on the
\* table as it is and on the table a completed cleanup_expired_tokens would
\* leave; and that cleanup keeps every non-revoked row of a token that still
\* verifies
C38_CleanupNotObservable ==
    LET cleaned == DeleteRevoked(DeleteExpired(refresh_tokens, now))
    IN  \A token \in IssuedRefresh :
            /\ refresh_outcome(cleaned, token, now)
                   = refresh_outcome(refresh_tokens, token, now)
            /\ \A r \in refresh_tokens :
                  (/\ r.token_hash = hash_token(token)
                   /\ ~r.revoked
                   /\ verify_refresh_token(token, now).ok)
                  => r \in cleaned

\* C39: once an account has a google_id, no step replaces it with a different
\* one, and no two accounts share a google_id
C39_ExternalIdNeverReplaced ==
    [][/\ \A u \in DOMAIN users_insight :
             users_insight[u].google_id # ""
                 => users_insight'[u].google_id = users_insight[u].google_id
       /\ \A u, v \in DOMAIN users_insight' :
             (/\ u # v
              /\ users_insight'[u].google_id # "")
                 => users_insight'[u].google_id # users_insight'[v].google_id]_vars
====
